---- MODULE Spec2Model ----
(***************************************************************************)
(* Model of the pooled-connection core of src/src/db.js: query (lines      *)
(* 24-34), withClient (lines 70-94) and withTransaction (lines 98-116),    *)
(* run by several callers that interleave at their yields over one shared  *)
(* pg connection pool and one store.                                       *)
(***************************************************************************)
EXTENDS Integers, Sequences, FiniteSets, TLC

\* ------------------------------------------------------------------ bounds
PoolSize == 1          \* connections the pool keeps open at once
SpareConns == 1        \* further physical connections the server will ever grant
MaxDeadlocks == 2      \* deadlock-coded failures one work unit may produce
NStmts == 2            \* statements a transactional work unit issues

\* Two callers run concurrently: the least number that can contend for a
\* connection and hand one over through the pool.
Callers == {1, 2}
NoCaller == 0
Conns == 1..(PoolSize + SpareConns)
NoClient == 0

Deadlock == "40P01"
OtherCode == "23505"
Note == "Could not remove from pool"

Kinds == {"query", "withClient", "withTransaction"}
Units == {"any", "alwaysDeadlock"}

VARIABLES
  kind,      \* kind[i]: which exported-style entry point caller i invoked
  unit,      \* unit[i]: how caller i's work unit behaves
  pc,        \* pc[i]: the yield caller i is suspended at, or "done"
  client,    \* client[i]: connection caller i holds (NoClient if none)
  attempts,  \* attempts[i]: entries into withClient/query so far, counted up to
             \* MaxDeadlocks + 1 (only an "alwaysDeadlock" unit goes beyond)
  caught,    \* caught[i]: error caught at line 106 in the current attempt
  raised,    \* raised[i]: error the caller observes
  result,    \* result[i]: value the caller observes
  trace,     \* trace[i]: what happened on the leased connection this attempt
  acquired,  \* acquired[i]: connections obtained from the pool in total (counted
             \* like attempts)
  released,  \* released[i]: calls of done in total (counted like attempts)
  thrown,    \* thrown[i]: error the runner threw into withClient this attempt
  deadlocks, \* deadlocks[i]: unflagged deadlock-coded failures thrown into withClient
  pool,      \* pool[c]: the pool's and the server's view of connection c
  row        \* row[i]: committed value of caller i's counter row

vars == <<kind, unit, pc, client, attempts, caught, raised, result, trace,
          acquired, released, thrown, deadlocks, pool, row>>

\* ------------------------------------------------------------------ values
\* A thrown value: val tells an ordinary error object ("object") from a frozen
\* one ("frozen") and from null or undefined ("null"), which has no
\* properties to read.
NoErr == [src |-> "none", att |-> 0, code |-> "", removeFromPool |-> FALSE,
          human |-> "", val |-> "none"]
NoResult == 0

MkErr(src, att, code, flag) ==
  [src |-> src, att |-> att, code |-> code, removeFromPool |-> flag, human |-> "",
   val |-> "object"]

\* The TypeError the engine raises on reading a property of null / undefined
\* or, in strict mode (line 1), on adding a property to a frozen object.
TypeError(i) == MkErr("TypeError", attempts[i], "", FALSE)

\* The value a work unit returns names the attempt that produced it.
WorkResult(i) == attempts[i]

ZeroPend == [i \in Callers |-> 0]
Fresh == [st |-> "unopened", holder |-> NoCaller, inTx |-> FALSE, pend |-> ZeroPend]

\* Error codes a statement or work unit of caller i may fail with now.
Codes(i) == IF attempts[i] <= MaxDeadlocks THEN {Deadlock, OtherCode} ELSE {OtherCode}

\* What a caller-supplied work unit may throw in attempt att: an error object,
\* frozen or not, with any code and flag, or null / undefined (throw null, a
\* promise rejected with no reason).
UnitThrows(i, src) ==
  {[MkErr(src, attempts[i], code, flag) EXCEPT !.val = v] :
     code \in Codes(i), flag \in BOOLEAN, v \in {"object", "frozen"}}
  \cup {[MkErr(src, attempts[i], "", FALSE) EXCEPT !.val = "null"]}

Min(a, b) == IF a < b THEN a ELSE b

\* ------------------------------------------------- pool and store contract
\* pool[c].st: "unopened" (never connected), "idle" (in the reusable set),
\* "leased" (handed to a caller), "destroyed" (dropped by the pool).
\* pool[c].holder: the caller the pool leased c to.
\* pool[c].inTx / pool[c].pend: the server session's open transaction and the
\* increments it holds for each caller's row, not yet committed.
Live(p) == {c \in Conns : p[c].st \in {"idle", "leased"}}
Idle(p) == {c \in Conns : p[c].st = "idle"}
Unopened(p) == {c \in Conns : p[c].st = "unopened"}

\* done() / done(err): hand a leased connection back, reusable or to be dropped.
\* A dropped connection's session ends, which aborts its open transaction.
done(p, c, discard) ==
  IF c = NoClient \/ p[c].st # "leased" THEN p
  ELSE IF discard
  THEN [p EXCEPT ![c] = [st |-> "destroyed", holder |-> NoCaller,
                         inTx |-> FALSE, pend |-> ZeroPend]]
  ELSE [p EXCEPT ![c].st = "idle", ![c].holder = NoCaller]

SqlBegin(p, c) == [p EXCEPT ![c].inTx = TRUE]

\* One increment of caller i's row: buffered in the open transaction,
\* applied at once when the session has none (autocommit).
SqlStmt(p, c, i) ==
  IF p[c].inTx THEN [p EXCEPT ![c].pend[i] = @ + 1] ELSE p
RowAfterStmt(r, p, c, i) ==
  IF p[c].inTx THEN r ELSE [r EXCEPT ![i] = @ + 1]

\* A failed statement aborts the open transaction's work; the transaction
\* stays open until ROLLBACK.
SqlStmtFailed(p, c) == [p EXCEPT ![c].pend = ZeroPend]

SqlCommit(p, c) == [p EXCEPT ![c].inTx = FALSE, ![c].pend = ZeroPend]
RowAfterCommit(r, p, c) ==
  IF p[c].inTx THEN [j \in Callers |-> r[j] + p[c].pend[j]] ELSE r

\* A failed COMMIT leaves the transaction rolled back.
SqlCommitFailed(p, c) == [p EXCEPT ![c].inTx = FALSE, ![c].pend = ZeroPend]

SqlRollback(p, c) == [p EXCEPT ![c].inTx = FALSE, ![c].pend = ZeroPend]
\* A failed ROLLBACK leaves the session as it was: the transaction may linger.
SqlRollbackFailed(p, c) == p

\* ------------------------------------------------------------- withClient
\* Caller i leaves the attempt: done() or done(err) on its connection, then
\* either completes (nextpc = "done") or re-enters withClient.
Leave(i, p, t, discard, nextpc, err, val) ==
  /\ pool' = done(p, client[i], discard)
  /\ trace' = [trace EXCEPT ![i] = Append(t, IF discard THEN "discard" ELSE "release")]
  /\ client' = [client EXCEPT ![i] = NoClient]
  /\ pc' = [pc EXCEPT ![i] = nextpc]
  /\ attempts' = [attempts EXCEPT ![i] =
                    IF nextpc = "done" THEN @ ELSE Min(@ + 1, MaxDeadlocks + 1)]
  /\ released' = [released EXCEPT ![i] = Min(@ + 1, MaxDeadlocks + 1)]
  /\ raised' = [raised EXCEPT ![i] = err]
  /\ result' = [result EXCEPT ![i] = val]

\* The catch block of lines 78-90 itself throws terr before it reaches any
\* done(): withClient ends with terr and the connection stays leased.
CatchThrows(i, terr, p, t) ==
  /\ pool' = p
  /\ trace' = [trace EXCEPT ![i] = t]
  /\ client' = [client EXCEPT ![i] = NoClient]
  /\ pc' = [pc EXCEPT ![i] = "done"]
  /\ raised' = [raised EXCEPT ![i] = terr]
  /\ UNCHANGED <<attempts, released, result>>

\* withClientCatch without the deadlock branch of lines 83-85: a deadlock is
\* handled like any other failure.
withClientCatch_NoRetry(i, err, p, t) ==
  IF err.val = "null"
  THEN CatchThrows(i, TypeError(i), p, t)
  ELSE IF err.removeFromPool
  THEN IF err.val = "frozen"
       THEN CatchThrows(i, TypeError(i), p, t)
       ELSE Leave(i, p, t, TRUE, "done", [err EXCEPT !.human = Note], NoResult)
  ELSE Leave(i, p, t, FALSE, "done", err, NoResult)

\* withClientCatch with a retry limit: only the first attempt's deadlock is
\* retried.
withClientCatch_RetryLimit(i, err, p, t) ==
  IF err.val = "null"
  THEN CatchThrows(i, TypeError(i), p, t)
  ELSE IF err.removeFromPool
  THEN IF err.val = "frozen"
       THEN CatchThrows(i, TypeError(i), p, t)
       ELSE Leave(i, p, t, TRUE, "done", [err EXCEPT !.human = Note], NoResult)
  ELSE IF err.code = Deadlock /\ attempts[i] < 2
  THEN Leave(i, p, t, FALSE, "connect", NoErr, NoResult)
  ELSE Leave(i, p, t, FALSE, "done", err, NoResult)

\* Lines 78-90: the runner threw err; p and t are the pool and the trace as
\* the runner left them. Line 79 reads err.removeFromPool, which throws a
\* TypeError when err is null or undefined; line 80 assigns err.human, which
\* throws a TypeError when err is frozen; both happen before any done().
withClientCatch(i, err, p, t) ==
  IF err.val = "null"
  THEN CatchThrows(i, TypeError(i), p, t)
  ELSE IF err.removeFromPool
  THEN IF err.val = "frozen"
       THEN CatchThrows(i, TypeError(i), p, t)
       ELSE Leave(i, p, t, TRUE, "done", [err EXCEPT !.human = Note], NoResult)
  ELSE IF err.code = Deadlock
  THEN Leave(i, p, t, FALSE, "connect", NoErr, NoResult)
  ELSE Leave(i, p, t, FALSE, "done", err, NoResult)

\* Lines 92-93: the runner returned val.
withClientReturn(i, val, p, t) ==
  Leave(i, p, t, FALSE, "done", NoErr, val)

\* The runner's failure as withClient receives it, with the bookkeeping of
\* what was thrown.
Throw(i, err, p, t) ==
  /\ thrown' = [thrown EXCEPT ![i] = err]
  /\ deadlocks' = [deadlocks EXCEPT ![i] =
                     IF err.code = Deadlock /\ ~err.removeFromPool
                     THEN Min(@ + 1, MaxDeadlocks) ELSE @]
  /\ withClientCatch(i, err, p, t)

Return(i, val, p, t) ==
  /\ UNCHANGED <<thrown, deadlocks>>
  /\ withClientReturn(i, val, p, t)

FirstYield(i) ==
  CASE kind[i] = "query" -> "sql"
    [] kind[i] = "withClient" -> "runner"
    [] kind[i] = "withTransaction" -> "begin"

\* pg.connectPromise resolves with connection c for caller i.
Lease(i, c) ==
  /\ pool' = [pool EXCEPT ![c].st = "leased", ![c].holder = i]
  /\ acquired' = [acquired EXCEPT ![i] = Min(@ + 1, MaxDeadlocks + 1)]
  /\ client' = [client EXCEPT ![i] = c]
  /\ trace' = [trace EXCEPT ![i] = <<"acquire">>]
  /\ pc' = [pc EXCEPT ![i] = FirstYield(i)]
  /\ caught' = [caught EXCEPT ![i] = NoErr]
  /\ thrown' = [thrown EXCEPT ![i] = NoErr]
  /\ UNCHANGED <<kind, unit, attempts, released, raised, result, deadlocks, row>>

\* pg.connectPromise rejects: nothing was leased, the error reaches the caller.
ConnectFailed(i) ==
  /\ pc' = [pc EXCEPT ![i] = "done"]
  /\ raised' = [raised EXCEPT ![i] = MkErr("connect", attempts[i], OtherCode, FALSE)]
  /\ trace' = [trace EXCEPT ![i] = <<>>]
  /\ caught' = [caught EXCEPT ![i] = NoErr]
  /\ thrown' = [thrown EXCEPT ![i] = NoErr]
  /\ UNCHANGED <<kind, unit, client, attempts, acquired, released, result, deadlocks,
                 pool, row>>

\* Lines 25-27 and 71-73: the yield on pg.connectPromise completes. The pool
\* hands out an idle connection if it has one, opens a new one while it is
\* below its size, and otherwise keeps the caller waiting.
connectPromise(i) ==
  /\ pc[i] = "connect"
  /\ IF Idle(pool) # {}
     THEN \E c \in Idle(pool) : Lease(i, c)
     ELSE /\ Cardinality(Live(pool)) < PoolSize
          /\ \/ /\ Unopened(pool) # {}
                /\ Lease(i, CHOOSE c \in Unopened(pool) : \A d \in Unopened(pool) : c <= d)
             \/ ConnectFailed(i)

\* Line 77 with a plain runner: it returns a value or throws.
runner(i) ==
  /\ pc[i] = "runner"
  /\ UNCHANGED <<kind, unit, acquired, caught, row>>
  /\ IF unit[i] = "alwaysDeadlock"
     THEN Throw(i, MkErr("runner", attempts[i], Deadlock, FALSE), pool, trace[i])
     ELSE \/ Return(i, WorkResult(i), pool, trace[i])
          \/ \E err \in UnitThrows(i, "runner") : Throw(i, err, pool, trace[i])

\* ------------------------------------------------------------------ query
\* query retrying a deadlocked statement the way withClient does.
query_RetryDeadlock(i) ==
  /\ pc[i] = "sql"
  /\ UNCHANGED <<kind, unit, acquired, caught, thrown, deadlocks, row>>
  /\ \/ Leave(i, pool, Append(trace[i], "sql"), FALSE, "done", NoErr, WorkResult(i))
     \/ Leave(i, pool, Append(trace[i], "sql:err"), FALSE, "done",
              MkErr("sql", attempts[i], OtherCode, FALSE), NoResult)
     \/ /\ Deadlock \in Codes(i)
        /\ Leave(i, pool, Append(trace[i], "sql:err"), FALSE, "connect", NoErr, NoResult)

\* Lines 28-33: the statement resolves or rejects; finally done().
query(i) ==
  /\ pc[i] = "sql"
  /\ UNCHANGED <<kind, unit, acquired, caught, thrown, deadlocks, row>>
  /\ \/ Leave(i, pool, Append(trace[i], "sql"), FALSE, "done", NoErr, WorkResult(i))
     \/ \E code \in Codes(i) :
          Leave(i, pool, Append(trace[i], "sql:err"), FALSE, "done",
                MkErr("sql", attempts[i], code, FALSE), NoResult)

\* -------------------------------------------------------- withTransaction
StmtsDone(i) == Len(SelectSeq(trace[i], LAMBDA e : e = "stmt"))

\* The catch of line 106 re-throwing at once, with no ROLLBACK.
txCatch_NoRollback(i, err, p, t) ==
  /\ caught' = [caught EXCEPT ![i] = err]
  /\ Throw(i, err, p, t)

\* Lines 106-108: the try block failed with err; ROLLBACK is issued.
txCatch(i, err, p, t) ==
  /\ caught' = [caught EXCEPT ![i] = err]
  /\ pc' = [pc EXCEPT ![i] = "rollback"]
  /\ pool' = p
  /\ trace' = [trace EXCEPT ![i] = t]
  /\ UNCHANGED <<client, attempts, released, raised, result, thrown, deadlocks>>

\* Lines 109-112: ROLLBACK failed with rerr; it is flagged and thrown (the
\* assignment of line 110 throws a TypeError instead when rerr cannot take it).
txRollbackFailed(i, rerr, p, t) ==
  IF rerr.val = "object"
  THEN Throw(i, [rerr EXCEPT !.removeFromPool = TRUE], p, t)
  ELSE Throw(i, TypeError(i), p, t)

\* Line 113: ROLLBACK succeeded; the error caught at line 106 is thrown.
txRollbackOk(i, p, t) ==
  Throw(i, caught[i], p, t)

\* Line 105 missing: nothing is returned after COMMIT.
txCommitOk_NoReturn(i, val, p, t) ==
  Return(i, NoResult, p, t)

\* Lines 104-105: COMMIT succeeded; the work unit's value is returned.
txCommitOk(i, val, p, t) ==
  Return(i, val, p, t)

\* Line 102: BEGIN resolves or rejects.
Begin(i) ==
  /\ pc[i] = "begin"
  /\ UNCHANGED <<kind, unit, acquired, row>>
  /\ \/ /\ pool' = SqlBegin(pool, client[i])
        /\ trace' = [trace EXCEPT ![i] = Append(@, "BEGIN")]
        /\ pc' = [pc EXCEPT ![i] = "work"]
        /\ UNCHANGED <<client, attempts, released, caught, raised, result, thrown, deadlocks>>
     \/ \E code \in Codes(i) :
          txCatch(i, MkErr("BEGIN", attempts[i], code, FALSE),
                  pool, Append(trace[i], "BEGIN:err"))

\* Line 103: the work unit issues its next statement on the connection. The
\* statement fails, or succeeds; after a success the work unit goes on to
\* its next statement, returns once it has issued them all (COMMIT is issued
\* then, line 104), or throws an error of its own.
Work(i) ==
  /\ pc[i] = "work"
  /\ UNCHANGED <<kind, unit, acquired>>
  /\ LET c == client[i]
         p == SqlStmt(pool, c, i)
         r == RowAfterStmt(row, pool, c, i)
         t == Append(trace[i], "stmt")
     IN \/ /\ pool' = p
           /\ row' = r
           /\ trace' = [trace EXCEPT ![i] = t]
           /\ pc' = [pc EXCEPT ![i] = IF StmtsDone(i) + 1 < NStmts THEN "work" ELSE "commit"]
           /\ UNCHANGED <<client, attempts, released, caught, raised, result, thrown, deadlocks>>
        \/ /\ row' = r
           /\ \E err \in UnitThrows(i, "work") : txCatch(i, err, p, t)
        \/ /\ row' = row
           /\ \E code \in Codes(i) :
                txCatch(i, MkErr("stmt", attempts[i], code, FALSE),
                        SqlStmtFailed(pool, c), Append(trace[i], "stmt:err"))

\* Line 104: COMMIT resolves or rejects.
Commit(i) ==
  /\ pc[i] = "commit"
  /\ UNCHANGED <<kind, unit, acquired>>
  /\ LET c == client[i]
     IN \/ /\ row' = RowAfterCommit(row, pool, c)
           /\ caught' = caught
           /\ txCommitOk(i, WorkResult(i), SqlCommit(pool, c), Append(trace[i], "COMMIT"))
        \/ /\ row' = row
           /\ \E code \in Codes(i) :
                txCatch(i, MkErr("COMMIT", attempts[i], code, FALSE),
                        SqlCommitFailed(pool, c), Append(trace[i], "COMMIT:err"))

\* Line 108: ROLLBACK resolves or rejects.
Rollback(i) ==
  /\ pc[i] = "rollback"
  /\ UNCHANGED <<kind, unit, acquired, caught, row>>
  /\ LET c == client[i]
     IN \/ txRollbackOk(i, SqlRollback(pool, c), Append(trace[i], "ROLLBACK"))
        \/ \E code \in Codes(i) :
             txRollbackFailed(i, MkErr("ROLLBACK", attempts[i], code, FALSE),
                              SqlRollbackFailed(pool, c), Append(trace[i], "ROLLBACK:err"))

\* ------------------------------------------------------------ the system
Init ==
  /\ kind \in [Callers -> Kinds]
  /\ unit \in [Callers -> Units]
  /\ \A i \in Callers : unit[i] = "alwaysDeadlock" => kind[i] = "withClient"
  /\ pc = [i \in Callers |-> "connect"]
  /\ client = [i \in Callers |-> NoClient]
  /\ attempts = [i \in Callers |-> 1]
  /\ caught = [i \in Callers |-> NoErr]
  /\ raised = [i \in Callers |-> NoErr]
  /\ result = [i \in Callers |-> NoResult]
  /\ trace = [i \in Callers |-> <<>>]
  /\ acquired = [i \in Callers |-> 0]
  /\ released = [i \in Callers |-> 0]
  /\ thrown = [i \in Callers |-> NoErr]
  /\ deadlocks = [i \in Callers |-> 0]
  /\ pool = [c \in Conns |-> Fresh]
  /\ row = [i \in Callers |-> 0]

Next ==
  \E i \in Callers :
    \/ connectPromise(i)
    \/ runner(i)
    \/ query(i)
    \/ Begin(i)
    \/ Work(i)
    \/ Commit(i)
    \/ Rollback(i)

Spec == Init /\ [][Next]_vars

\* Every I/O call a caller is suspended on completes, resolved or rejected;
\* the pool serves its waiters in turn, so a caller waiting for a connection
\* that becomes free again and again gets one.
Fairness ==
  \A i \in Callers :
    /\ SF_vars(connectPromise(i))
    /\ WF_vars(runner(i) \/ query(i) \/ Begin(i) \/ Work(i) \/ Commit(i) \/ Rollback(i))

\* The retry behaviour is withClient's: it is checked with one caller invoking
\* withClient directly and the other invoking any of the three entry points.
FairInit == Init /\ kind[1] = "withClient"

FairSpec == FairInit /\ [][Next]_vars /\ Fairness

\* ================================================================ claims
Count(t, e) == Len(SelectSeq(t, LAMBDA x : x = e))
Releases(t) == Count(t, "release") + Count(t, "discard")
LeasedTo(i) == {c \in Conns : pool[c].st = "leased" /\ pool[c].holder = i}
Governed(i) == kind[i] \in {"withClient", "withTransaction"}
InFlight(i) == pc[i] \in {"sql", "runner", "begin", "work", "commit", "rollback"}
Completed(i) == pc[i] = "done"
ConnectError(i) == raised[i].src = "connect"
SameError(a, b) == [a EXCEPT !.human = ""] = [b EXCEPT !.human = ""]

\* C1: in every attempt of withClient the connection obtained from the pool
\* is handed back exactly once, whatever the runner's outcome: while the
\* runner is running the caller holds exactly the one connection it acquired
\* and has not called done; once the attempt is over, done has been called
\* exactly once, as the last thing, and the pool has nothing leased to the
\* caller. Over the whole invocation the acquires and the done calls balance
\* and match the number of attempts.
C1_ReleasedExactlyOnce ==
  \A i \in Callers : Governed(i) =>
    /\ IF InFlight(i)
       THEN /\ client[i] # NoClient
            /\ LeasedTo(i) = {client[i]}
            /\ Count(trace[i], "acquire") = 1
            /\ Releases(trace[i]) = 0
       ELSE /\ client[i] = NoClient
            /\ LeasedTo(i) = {}
            /\ trace[i] # <<>> =>
                 /\ Count(trace[i], "acquire") = 1
                 /\ Releases(trace[i]) = 1
                 /\ trace[i][Len(trace[i])] \in {"release", "discard"}
    /\ unit[i] = "any" =>
         /\ acquired[i] = released[i] + (IF InFlight(i) THEN 1 ELSE 0)
         /\ acquired[i] = attempts[i]
                           - (IF pc[i] = "connect" \/ (Completed(i) /\ ConnectError(i))
                              THEN 1 ELSE 0)

\* The runner of caller i throws err into withClient in this step.
Throws(i) == Governed(i) /\ thrown[i] = NoErr /\ thrown'[i] # NoErr
LastEvent(t) == t[Len(t)]

\* C2: when the runner fails with the deadlock code and no removeFromPool
\* flag, the connection goes back to the pool's reusable set with a plain
\* done(), the caller holds nothing, and only then withClient is entered
\* again; the caller never observes such an error; and an invocation whose
\* runner deadlocked exactly once and then returned yields the second
\* attempt's value after exactly two acquires and two releases.
C2_DeadlockRetry ==
  /\ [][\A i \in Callers :
          Throws(i) /\ thrown'[i].code = Deadlock /\ ~thrown'[i].removeFromPool =>
            /\ pool'[client[i]].st = "idle"
            /\ pool'[client[i]].holder = NoCaller
            /\ LastEvent(trace'[i]) = "release"
            /\ client'[i] = NoClient
            /\ pc'[i] = "connect"
            /\ raised'[i] = NoErr /\ result'[i] = NoResult
            /\ unit[i] = "any" => attempts'[i] = attempts[i] + 1]_vars
  /\ [](\A i \in Callers : Governed(i) /\ Completed(i) =>
          ~(raised[i].code = Deadlock /\ ~raised[i].removeFromPool))
  /\ [](\A i \in Callers :
          Governed(i) /\ Completed(i) /\ deadlocks[i] = 1 /\ result[i] # NoResult =>
            /\ attempts[i] = 2 /\ acquired[i] = 2 /\ released[i] = 2
            /\ result[i] = 2
            /\ raised[i] = NoErr)

C2_Witness ==
  \E i \in Callers :
    /\ kind[i] = "withTransaction" /\ Completed(i)
    /\ deadlocks[i] = 1 /\ result[i] = 2
    /\ acquired[i] = 2 /\ released[i] = 2

\* C3: when the runner fails with an error flagged removeFromPool, whatever
\* its code, the connection is released with the discard signal and the pool
\* drops it for good, withClient is not entered again, and the caller observes
\* that very error with the note attached.
C3_FlaggedDiscarded ==
  /\ [][\A i \in Callers :
          Throws(i) /\ thrown'[i].removeFromPool =>
            /\ pool'[client[i]].st = "destroyed"
            /\ LastEvent(trace'[i]) = "discard"
            /\ client'[i] = NoClient
            /\ pc'[i] = "done"
            /\ attempts'[i] = attempts[i]
            /\ raised'[i] = [thrown'[i] EXCEPT !.human = Note]
            /\ result'[i] = NoResult]_vars
  /\ [][\A c \in Conns : pool[c].st = "destroyed" => pool'[c] = pool[c]]_vars

\* C4: when the runner fails with an error that has neither the flag nor the
\* deadlock code, the connection is released without the discard signal and
\* stays reusable, withClient is not entered again (a runner that never
\* deadlocked was attempted once), and the caller observes that very error,
\* unmodified.
C4_OrdinaryFailure ==
  /\ [][\A i \in Callers :
          Throws(i) /\ ~thrown'[i].removeFromPool /\ thrown'[i].code # Deadlock =>
            /\ pool'[client[i]].st = "idle"
            /\ LastEvent(trace'[i]) = "release"
            /\ client'[i] = NoClient
            /\ pc'[i] = "done"
            /\ attempts'[i] = attempts[i]
            /\ raised'[i] = thrown'[i]
            /\ result'[i] = NoResult]_vars
  /\ [](\A i \in Callers :
          /\ Governed(i) /\ Completed(i) /\ deadlocks[i] = 0
          /\ raised[i] # NoErr /\ ~ConnectError(i) /\ ~raised[i].removeFromPool
          => attempts[i] = 1 /\ acquired[i] = 1 /\ released[i] = 1)

\* ------------------------------------------------------ withTransaction
Tx(i) == kind[i] = "withTransaction"
Stmts == [k \in 1..NStmts |-> "stmt"]
SuccessTrace == <<"acquire", "BEGIN">> \o Stmts \o <<"COMMIT", "release">>
\* The work unit of the current attempt returned / failed.
WorkReturned(i) == Tx(i) /\ Count(trace[i], "stmt") = NStmts /\ caught[i].src # "work"
WorkFailed(i) == Tx(i) /\ caught[i].src \in {"work", "stmt"}
CommitAt == NStmts + 3

\* C5 as claimed: whenever the wrapped work unit succeeds, the attempt is
\* BEGIN, work, COMMIT, release with no ROLLBACK, and the caller gets the
\* work unit's value.
C5_AsClaimed ==
  \A i \in Callers : Completed(i) /\ WorkReturned(i) =>
    /\ trace[i] = SuccessTrace
    /\ result[i] = WorkResult(i)
    /\ raised[i] = NoErr

\* C5 amended: when the wrapped work unit succeeds, BEGIN, the work unit's
\* statements and COMMIT are issued in that order on the leased connection
\* and COMMIT completes before the connection is released; when COMMIT
\* succeeds as well, no ROLLBACK is issued and the value the caller gets is the
\* work unit's result.
C5_CommitBeforeRelease ==
  \A i \in Callers : WorkReturned(i) =>
    /\ SubSeq(trace[i], 1, NStmts + 2) = <<"acquire", "BEGIN">> \o Stmts
    /\ pc[i] = "commit" => Len(trace[i]) = NStmts + 2 /\ client[i] # NoClient
    /\ pc[i] # "commit" =>
         /\ Len(trace[i]) >= CommitAt
         /\ trace[i][CommitAt] \in {"COMMIT", "COMMIT:err"}
         /\ trace[i][CommitAt] = "COMMIT" =>
              /\ trace[i] = SuccessTrace
              /\ Completed(i)
              /\ result[i] = WorkResult(i)
              /\ raised[i] = NoErr
         /\ trace[i][CommitAt] = "COMMIT:err" =>
              /\ result[i] = NoResult
              /\ caught[i].src = "COMMIT"

C5_Witness ==
  \E i \in Callers :
    /\ Tx(i) /\ Completed(i)
    /\ trace[i] = SuccessTrace
    /\ result[i] = attempts[i]
    /\ row[i] = NStmts

RollbackStep(i) == Tx(i) /\ pc[i] = "rollback" /\ pc'[i] # "rollback"
RollbackOk(t) == Count(t, "ROLLBACK") = 1
Retried(e) == e.code = Deadlock /\ ~e.removeFromPool

\* C6 as claimed: whenever the wrapped work unit fails, ROLLBACK is issued and
\* the caller observes the original failure, unless ROLLBACK fails; then the
\* caller observes the flagged ROLLBACK failure and the connection is
\* discarded.
C6_AsClaimed ==
  [][\A i \in Callers : RollbackStep(i) /\ WorkFailed(i) =>
       /\ pc'[i] = "done"
       /\ IF RollbackOk(trace'[i])
          THEN SameError(raised'[i], caught[i])
          ELSE /\ raised'[i].src = "ROLLBACK"
               /\ raised'[i].removeFromPool
               /\ pool'[client[i]].st = "destroyed"]_vars

\* C7: the committed store never holds a part of a transaction: the row of a
\* withTransaction caller carries all the increments of one attempt or none
\* of them, at every moment; once the invocation is over nothing of it is
\* left pending on any connection; a work unit that failed leaves the row
\* unchanged, and a returned value comes with all of its increments.
C7_AllOrNothing ==
  \A i \in Callers : Tx(i) =>
    /\ row[i] \in {0, NStmts}
    /\ Completed(i) => \A c \in Conns : pool[c].pend[i] = 0
    /\ Completed(i) /\ WorkFailed(i) => row[i] = 0
    /\ Completed(i) /\ result[i] # NoResult => row[i] = NStmts

\* The work unit incremented the row and then threw; the row is unchanged.
C7_Witness ==
  \E i \in Callers :
    /\ Tx(i) /\ Completed(i)
    /\ caught[i].src = "work" /\ Count(trace[i], "stmt") >= 1
    /\ raised[i] = caught[i]
    /\ row[i] = 0

\* ------------------------------------------------------------ concurrency
\* C8: no connection is held by two callers at once; a caller holds at most
\* one connection, and only one the pool leased to it; a caller waiting to
\* acquire (first attempt or retry) or finished holds none; when every caller
\* has finished no connection is leased, so each one the pool still keeps is
\* back in its reusable set.
C8_ExclusiveLease ==
  /\ \A i, j \in Callers : i # j /\ client[i] # NoClient => client[i] # client[j]
  /\ \A i \in Callers :
       /\ Cardinality(LeasedTo(i)) <= 1
       /\ client[i] # NoClient =>
            pool[client[i]].st = "leased" /\ pool[client[i]].holder = i
       /\ pc[i] \in {"connect", "done"} => client[i] = NoClient /\ LeasedTo(i) = {}
  /\ \A c \in Conns : pool[c].st = "leased" =>
       pool[c].holder \in Callers /\ client[pool[c].holder] = c
  /\ (\A i \in Callers : Completed(i)) =>
       \A c \in Conns : pool[c].st \in {"unopened", "idle", "destroyed"}

\* ---------------------------------------------------------------- retries
AlwaysDeadlock(i) == unit[i] = "alwaysDeadlock"
\* The pool will never grant caller i's acquire: it is at its size, nothing is
\* idle, and what is leased is leased to invocations that are over.
Denied(i) ==
  /\ pc[i] = "connect"
  /\ Idle(pool) = {}
  /\ Cardinality(Live(pool)) >= PoolSize
  /\ \A c \in Conns : pool[c].st = "leased" => Completed(pool[c].holder)

\* C9: withClient has no retry limit. An invocation that has completed
\* without an acquire failure was attempted once more than its runner failed
\* with the deadlock code; with the pool granting acquires and I/O completing,
\* an invocation whose runner deadlocks finitely often completes; one whose
\* runner deadlocks on every attempt is attempted again and again and never
\* completes (short of an acquire failure).
C9_UnboundedRetry ==
  /\ [](\A i \in Callers :
          Governed(i) /\ ~AlwaysDeadlock(i) /\ Completed(i) /\ ~ConnectError(i) =>
            attempts[i] = deadlocks[i] + 1)
  /\ \A i \in Callers : (Governed(i) /\ ~AlwaysDeadlock(i)) ~> (Completed(i) \/ Denied(i))
  /\ [](\A i \in Callers : AlwaysDeadlock(i) /\ Completed(i) => ConnectError(i))
  /\ \A i \in Callers :
       (AlwaysDeadlock(i) /\ pc[i] = "runner") ~> (pc[i] = "connect")
  /\ \A i \in Callers :
       (AlwaysDeadlock(i) /\ pc[i] = "connect") ~>
         (pc[i] = "runner" \/ Completed(i) \/ Denied(i))

C9_Witness ==
  \E i, j \in Callers :
    /\ Governed(i) /\ Completed(i) /\ deadlocks[i] = MaxDeadlocks
    /\ attempts[i] = MaxDeadlocks + 1 /\ result[i] = MaxDeadlocks + 1
    /\ AlwaysDeadlock(j) /\ pc[j] = "runner" /\ attempts[j] = MaxDeadlocks + 1

\* ------------------------------------------------------------------ query
IsQuery(i) == kind[i] = "query"

\* C10: query acquires one connection, runs one statement and releases the
\* connection exactly once without the discard signal, on success and on
\* failure; a failed statement, deadlock-coded or not, is re-raised to the
\* caller after the release and nothing is retried.
C10_QueryReleases ==
  /\ [][\A i \in Callers : IsQuery(i) /\ pc[i] = "sql" /\ pc'[i] # "sql" =>
          /\ pool'[client[i]].st = "idle"
          /\ client'[i] = NoClient
          /\ pc'[i] = "done"]_vars
  /\ [](\A i \in Callers : IsQuery(i) =>
          /\ LeasedTo(i) = (IF InFlight(i) THEN {client[i]} ELSE {})
          /\ attempts[i] = 1
          /\ Completed(i) /\ ~ConnectError(i) =>
               /\ acquired[i] = 1 /\ released[i] = 1
               /\ \/ /\ trace[i] = <<"acquire", "sql", "release">>
                     /\ raised[i] = NoErr /\ result[i] = WorkResult(i)
                  \/ /\ trace[i] = <<"acquire", "sql:err", "release">>
                     /\ raised[i].src = "sql" /\ result[i] = NoResult)

C10_Witness ==
  \E i \in Callers :
    /\ IsQuery(i) /\ Completed(i)
    /\ raised[i] = MkErr("sql", 1, Deadlock, FALSE)
    /\ trace[i] = <<"acquire", "sql:err", "release">>
    /\ \E c \in Conns : pool[c].st = "idle"

====
